---- MODULE Spec2Model ----
(***************************************************************************)
(* Model of retinopathy/callbacks.py: cohen_kappa_score,                   *)
(* CappaScoreCallback, AscensionCallback, the two mixup criterion          *)
(* callbacks and NegativeMiningCallback, each with the part of the         *)
(* RunnerState it uses.  Every component has its own specification         *)
(* (KappaSpec, CappaSpec, AscSpec, MixSpec, NegSpec); the variables of the *)
(* other components stay idle.                                             *)
(*                                                                         *)
(* Real numbers are modelled exactly: a kappa score is a reduced fraction  *)
(* p / q (or nan / inf / -inf after a division by zero), a mixing          *)
(* coefficient lam is a number of tenths, and tensor rows are integers     *)
(* (multiples of 10 when loaded, so that one blend is exact).  IEEE        *)
(* rounding is not modelled.  CappaScoreCallback and                       *)
(* NegativeMiningCallback are modelled with from_regression=False.         *)
(***************************************************************************)
EXTENDS Integers, Sequences, FiniteSets, TLC

VARIABLES
    \* ---- cohen_kappa_score called as a function
    k_y1, k_y2, k_weights, k_result,
    \* ---- CappaScoreCallback and the RunnerState it reads and writes
    c_ignore_index, c_targets, c_predictions, c_epoch_values, c_loader_name,
    c_since_start, c_last,
    \* ---- AscensionCallback and the net it clips
    a_net, a_margin, a_min_val, a_clamp, a_last,
    \* ---- MixupSameLabelCallback / MixupRegressionCallback and the RunnerState
    m_cls, m_on_train_only, m_fields, m_alpha, m_lam, m_index, m_is_needed,
    m_loader_name, m_prev_needed, m_input, m_loaded, m_output, m_loss,
    m_error, m_pc,
    \* ---- NegativeMiningCallback and the RunnerState / log directory it uses
    n_ignore_index, n_image_ids, n_y_trues, n_y_preds, n_y_preds_raw,
    n_loader_name, n_csv, n_since_start, n_last

kappaVars == <<k_y1, k_y2, k_weights, k_result>>
cappaVars == <<c_ignore_index, c_targets, c_predictions, c_epoch_values,
               c_loader_name, c_since_start, c_last>>
ascVars == <<a_net, a_margin, a_min_val, a_clamp, a_last>>
mixConfig == <<m_cls, m_on_train_only, m_fields, m_alpha>>
mixVars == <<mixConfig, m_lam, m_index, m_is_needed, m_loader_name,
             m_prev_needed, m_input, m_loaded, m_output, m_loss, m_error,
             m_pc>>
negVars == <<n_ignore_index, n_image_ids, n_y_trues, n_y_preds, n_y_preds_raw,
             n_loader_name, n_csv, n_since_start, n_last>>
vars == <<kappaVars, cappaVars, ascVars, mixVars, negVars>>

\* what each component leaves alone
notKappa == <<cappaVars, ascVars, mixVars, negVars>>
notCappa == <<kappaVars, ascVars, mixVars, negVars>>
notAsc == <<kappaVars, cappaVars, mixVars, negVars>>
notMix == <<kappaVars, cappaVars, ascVars, negVars>>
notNeg == <<kappaVars, cappaVars, ascVars, mixVars>>

-----------------------------------------------------------------------------
(* Bounds *)

\* longest label sequence handed to cohen_kappa_score
MaxLen == 3
\* labels are drawn from 0..MaxLabel
MaxLabel == 2
\* largest number of samples in one batch
MaxBatch == 2
\* largest number of samples CappaScoreCallback sees between two loader starts
MaxAccum == 3
\* largest number of cutpoints of a LogisticCumulativeLink module
MaxCut == 3
\* cutpoint values after a gradient update are drawn from -MaxCutVal..MaxCutVal
MaxCutVal == 2
\* largest number of samples in a batch of the mixup callbacks
MaxMixBatch == 2
\* largest number of samples NegativeMiningCallback sees between two loader
\* starts
MaxNegAccum == 3

-----------------------------------------------------------------------------
(* Generic helpers *)

None == "None"

Range(s) == {s[i] : i \in 1..Len(s)}

RECURSIVE SumTo(_, _)
\* f[1] + ... + f[n]
SumTo(f, n) == IF n = 0 THEN 0 ELSE f[n] + SumTo(f, n - 1)

Abs(x) == IF x < 0 THEN -x ELSE x

RECURSIVE GCD(_, _)
GCD(a, b) == IF b = 0 THEN Abs(a) ELSE GCD(b, a % b)

\* A float: [kind |-> "num", p |-> p, q |-> q] is the reduced fraction p / q
\* (q > 0); the other kinds are what numpy yields for a division by zero.
NaN == [kind |-> "nan"]
PosInf == [kind |-> "inf"]
NegInf == [kind |-> "-inf"]
Frac(p, q) == [kind |-> "num", p |-> p, q |-> q]

\* the float p / q for integers p and q
Div(p, q) ==
    IF q = 0
    THEN (IF p = 0 THEN NaN ELSE IF p > 0 THEN PosInf ELSE NegInf)
    ELSE LET g == GCD(p, q)
             s == IF q < 0 THEN -1 ELSE 1
         IN  Frac((s * p) \div g, (s * q) \div g)

\* the float 1 - k
OneMinus(k) ==
    IF k.kind = "nan" THEN NaN
    ELSE IF k.kind = "inf" THEN NegInf
    ELSE IF k.kind = "-inf" THEN PosInf
    ELSE Frac(k.q - k.p, k.q)

IsNumber(x) == x.kind = "num"

-----------------------------------------------------------------------------
(* cohen_kappa_score *)

RECURSIVE SortedSeq(_)
\* the elements of a finite set of integers in ascending order
SortedSeq(S) ==
    IF S = {} THEN <<>>
    ELSE LET m == CHOOSE x \in S : \A y \in S : x <= y
         IN  <<m>> \o SortedSeq(S \ {m})

\* sklearn confusion_matrix(y1, y2, labels=None): rows are the labels of y1,
\* columns the labels of y2, both indexed by rank in the sorted union
confusion_matrix(y1, y2) ==
    LET labels == SortedSeq(Range(y1) \cup Range(y2))
        n      == Len(labels)
    IN  [i \in 1..n |-> [j \in 1..n |->
            Cardinality({s \in 1..Len(y1) :
                            y1[s] = labels[i] /\ y2[s] = labels[j]})]]

MatSum(M) == SumTo([i \in DOMAIN M |-> SumTo(M[i], Len(M[i]))], Len(M))

\* weights is None: ones with a zero diagonal
WMatNone(n) == [i \in 1..n |-> [j \in 1..n |-> IF i = j THEN 0 ELSE 1]]

\* weights == "linear": np.abs(w_mat - w_mat.T), w_mat[i][j] = j
WMatLinear(n) == [i \in 1..n |-> [j \in 1..n |-> Abs(j - i)]]

\* weights == "quadratic": (w_mat - w_mat.T) ** 2
WMatQuadratic(n) == [i \in 1..n |-> [j \in 1..n |-> (j - i) * (j - i)]]

\* mutant: the column sums used for both annotators
ExpectedOuter_Sum0Twice(confusion) ==
    LET n    == Len(confusion)
        sum0 == [j \in 1..n |-> SumTo([i \in 1..n |-> confusion[i][j]], n)]
    IN  [i \in 1..n |-> [j \in 1..n |-> sum0[i] * sum0[j]]]

\* np.outer(sum0, sum1): sum0 are the column sums, sum1 the row sums
ExpectedOuter(confusion) ==
    LET n    == Len(confusion)
        sum0 == [j \in 1..n |-> SumTo([i \in 1..n |-> confusion[i][j]], n)]
        sum1 == [i \in 1..n |-> SumTo(confusion[i], n)]
    IN  [i \in 1..n |-> [j \in 1..n |-> sum0[i] * sum1[j]]]

\* The returned tuple (1 - k, num, denom); denom is kept as the matrix
\* w_mat * np.outer(sum0, sum1) together with the divisor np.sum(sum0).
cohen_kappa_score(y1, y2, weights) ==
    LET confusion == confusion_matrix(y1, y2)
        n_classes == Len(confusion)
        total     == MatSum(confusion)
        outer     == ExpectedOuter(confusion)
        w_mat     == IF weights = None THEN WMatNone(n_classes)
                     ELSE IF weights = "linear" THEN WMatLinear(n_classes)
                     ELSE WMatQuadratic(n_classes)
        num       == [i \in 1..n_classes |-> [j \in 1..n_classes |->
                         w_mat[i][j] * confusion[i][j]]]
        denomN    == [i \in 1..n_classes |-> [j \in 1..n_classes |->
                         w_mat[i][j] * outer[i][j]]]
        \* np.sum(num) / np.sum(denom), np.sum(denom) = MatSum(denomN) / total
        k         == IF MatSum(denomN) = 0 \/ total = 0
                     THEN Div(MatSum(num), 0)
                     ELSE Div(MatSum(num) * total, MatSum(denomN))
    IN  IF weights \notin {None, "linear", "quadratic"}
        THEN [error |-> "ValueError"]
        ELSE [score |-> OneMinus(k), num |-> num,
              denom |-> denomN, denom_div |-> total]

-----------------------------------------------------------------------------
(* Specification KappaSpec: cohen_kappa_score applied to bounded inputs *)

Labels == 0..MaxLabel

SeqsUpTo(S, n) == UNION {[1..m -> S] : m \in 0..n}

Weightings == {None, "linear", "quadratic", "cubic"}

NoCall == [pending |-> TRUE]

CappaIdle ==
    /\ c_ignore_index = {}
    /\ c_targets = <<>>
    /\ c_predictions = <<>>
    /\ c_epoch_values = <<>>
    /\ c_loader_name = <<>>
    /\ c_since_start = <<>>
    /\ c_last = "init"

NegIdle ==
    /\ n_ignore_index = {}
    /\ n_image_ids = <<>>
    /\ n_y_trues = <<>>
    /\ n_y_preds = <<>>
    /\ n_y_preds_raw = <<>>
    /\ n_loader_name = <<>>
    /\ n_csv = <<>>
    /\ n_since_start = <<>>
    /\ n_last = "init"

MixIdle ==
    /\ m_cls = "none"
    /\ m_on_train_only = TRUE
    /\ m_fields = <<>>
    /\ m_alpha = 0
    /\ m_lam = 10
    /\ m_index = <<>>
    /\ m_is_needed = TRUE
    /\ m_loader_name = <<>>
    /\ m_prev_needed = TRUE
    /\ m_input = <<>>
    /\ m_loaded = <<>>
    /\ m_output = <<>>
    /\ m_loss = <<>>
    /\ m_error = "none"
    /\ m_pc = "idle"

AscIdle ==
    /\ a_net = <<>>
    /\ a_margin = 0
    /\ a_min_val = 0
    /\ a_clamp = "min_max"
    /\ a_last = "init"

KappaInit ==
    /\ k_y1 \in SeqsUpTo(Labels, MaxLen)
    /\ k_y2 \in [1..Len(k_y1) -> Labels]
    /\ k_weights \in Weightings
    /\ k_result = NoCall
    /\ CappaIdle
    /\ AscIdle
    /\ MixIdle
    /\ NegIdle

KappaCall ==
    /\ k_result = NoCall
    /\ k_result' = cohen_kappa_score(k_y1, k_y2, k_weights)
    /\ UNCHANGED <<k_y1, k_y2, k_weights, notKappa>>

KappaNext == KappaCall

KappaSpec == KappaInit /\ [][KappaNext]_vars

AcceptedWeightings == {None, "linear", "quadratic"}

KappaCalled == k_result # NoCall /\ k_weights \in AcceptedWeightings

\* C3: cohen_kappa_score is symmetric: for equal-length y1, y2 and every
\* accepted weighting, the score returned for (y1, y2) is the score returned
\* for (y2, y1).
KappaSymmetric ==
    KappaCalled =>
        k_result.score = cohen_kappa_score(k_y2, k_y1, k_weights).score

\* a call whose confusion matrix is not symmetric and whose score is a number
\* other than 0 and 1
KappaSymmetricWitness ==
    /\ KappaCalled
    /\ k_weights = "linear"
    /\ confusion_matrix(k_y1, k_y2) # confusion_matrix(k_y2, k_y1)
    /\ IsNumber(k_result.score)
    /\ k_result.score.p \notin {0, k_result.score.q}

\* C4: for complete agreement (y1 = y2, non-empty, a single label included)
\* the score is the maximum value 1.
KappaAgreementIsOne ==
    (KappaCalled /\ k_y1 # <<>> /\ k_y1 = k_y2) =>
        k_result.score = Frac(1, 1)

\* C5: for non-empty equal-length sequences and every accepted weighting the
\* score is a number between -1 and 1 inclusive.
KappaInRange ==
    (KappaCalled /\ k_y1 # <<>>) =>
        /\ IsNumber(k_result.score)
        /\ -k_result.score.q <= k_result.score.p
        /\ k_result.score.p <= k_result.score.q

-----------------------------------------------------------------------------
(* CappaScoreCallback *)

\* ignore_index=-100
IgnoreIndex == -100

\* An optional integer is a set: {} is Python's None, {v} the value v.
IsNotNone(opt) == opt # {}

\* loader names as character sequences
Train == <<"t", "r", "a", "i", "n">>
TrainExtra == Train \o <<"_", "x">>
Valid == <<"v", "a", "l", "i", "d">>
LoaderNames == {Train, TrainExtra, Valid}
\* the loaders CappaScoreCallback is run on
CappaLoaders == {Train, Valid}

\* the samples of the batches CappaScoreCallback sees: (target, logits row)
CappaSamples ==
    {[target |-> 0, logits |-> <<1, 1>>],
     [target |-> 1, logits |-> <<1, 1>>],
     [target |-> 1, logits |-> <<0, 3>>],
     [target |-> IgnoreIndex, logits |-> <<0, 3>>]}

\* np.argmax of one row: the 0-based index of the first maximum
ArgMax(row) ==
    (CHOOSE i \in 1..Len(row) :
        /\ \A j \in 1..Len(row) : row[j] <= row[i]
        /\ \A j \in 1..(i - 1) : row[j] < row[i]) - 1

RECURSIVE Masked(_, _)
\* x[mask]: the elements of x whose mask entry is TRUE, in order
Masked(x, mask) ==
    IF x = <<>> THEN <<>>
    ELSE (IF Head(mask) THEN <<Head(x)>> ELSE <<>>)
            \o Masked(Tail(x), Tail(mask))

\* a batch as the runner presents it at on_batch_end
CappaBatches ==
    UNION {[1..b -> CappaSamples] : b \in 0..MaxBatch}

Unset == [kind |-> "unset"]

KappaIdle ==
    /\ k_y1 = <<>>
    /\ k_y2 = <<>>
    /\ k_weights = None
    /\ k_result = NoCall

CappaInit ==
    /\ c_ignore_index \in {{IgnoreIndex}, {}}
    /\ c_targets = <<>>
    /\ c_predictions = <<>>
    /\ c_epoch_values = [l \in CappaLoaders |-> Unset]
    /\ c_loader_name = Train
    /\ c_since_start = <<>>
    /\ c_last = "init"
    /\ KappaIdle
    /\ AscIdle
    /\ MixIdle
    /\ NegIdle

\* mutant: the lists are not emptied when a loader starts
CappaOnLoaderStart_NoReset(name) ==
    /\ c_loader_name' = name
    /\ c_since_start' = <<>>
    /\ c_last' = "loader_start"
    /\ UNCHANGED <<c_ignore_index, c_targets, c_predictions, c_epoch_values,
                   notCappa>>

\* the runner enters loader `name`; the callback drops what it accumulated
CappaOnLoaderStart(name) ==
    /\ c_loader_name' = name
    /\ c_targets' = <<>>
    /\ c_predictions' = <<>>
    /\ c_since_start' = <<>>
    /\ c_last' = "loader_start"
    /\ UNCHANGED <<c_ignore_index, c_epoch_values, notCappa>>

CappaBatchEndLists(targets0, predictions0, ignore_index, batch) ==
    LET targets == [i \in 1..Len(batch) |-> batch[i].target]
        outputs == [i \in 1..Len(batch) |-> ArgMax(batch[i].logits)]
        mask    == [i \in 1..Len(batch) |-> targets[i] \notin ignore_index]
    IN  IF IsNotNone(ignore_index)
        THEN [targets     |-> targets0 \o Masked(targets, mask),
              predictions |-> predictions0 \o Masked(outputs, mask)]
        ELSE [targets     |-> targets0 \o targets,
              predictions |-> predictions0 \o outputs]

CappaOnBatchEnd(batch) ==
    /\ Len(c_since_start) + Len(batch) <= MaxAccum
    /\ LET r == CappaBatchEndLists(c_targets, c_predictions,
                                   c_ignore_index, batch)
       IN  /\ c_targets' = r.targets
           /\ c_predictions' = r.predictions
    /\ c_since_start' = c_since_start \o batch
    /\ c_last' = "batch_end"
    /\ UNCHANGED <<c_ignore_index, c_epoch_values, c_loader_name, notCappa>>

CappaLoaderEndScore(predictions, targets) ==
    cohen_kappa_score(predictions, targets, "quadratic").score

CappaOnLoaderEnd ==
    /\ c_epoch_values' =
           [c_epoch_values EXCEPT ![c_loader_name] =
               CappaLoaderEndScore(c_predictions, c_targets)]
    /\ c_last' = "loader_end"
    /\ UNCHANGED <<c_ignore_index, c_targets, c_predictions, c_loader_name,
                   c_since_start, notCappa>>

CappaNext ==
    \/ \E name \in CappaLoaders : CappaOnLoaderStart(name)
    \/ \E batch \in CappaBatches : CappaOnBatchEnd(batch)
    \/ CappaOnLoaderEnd

CappaSpec == CappaInit /\ [][CappaNext]_vars

\* the samples of the batches since the most recent on_loader_start whose
\* target differs from ignore_index, in order
CappaKept ==
    SelectSeq(c_since_start, LAMBDA s : s.target \notin c_ignore_index)

\* C6: the score on_loader_end writes to epoch_values[loader_name][prefix] is
\* the quadratic kappa of exactly the samples of the batches seen since the
\* most recent on_loader_start whose target differs from ignore_index, in
\* order.
CappaScoreOverCurrentLoader ==
    c_last = "loader_end" =>
        c_epoch_values[c_loader_name] =
            cohen_kappa_score([i \in 1..Len(CappaKept) |->
                                   ArgMax(CappaKept[i].logits)],
                              [i \in 1..Len(CappaKept) |->
                                   CappaKept[i].target],
                              "quadratic").score

\* a score written for a loader that had an ignored sample, after another
\* loader got a different score
CappaScoreWitness ==
    /\ c_last = "loader_end"
    /\ \E i \in 1..Len(c_since_start) : c_since_start[i].target = IgnoreIndex
    /\ Len(CappaKept) < Len(c_since_start)
    /\ IsNumber(c_epoch_values[c_loader_name])
    /\ \E l \in CappaLoaders :
          /\ c_epoch_values[l] # Unset
          /\ c_epoch_values[l] # c_epoch_values[c_loader_name]

-----------------------------------------------------------------------------
(* AscensionCallback *)

LCL == "LogisticCumulativeLink"

CutVals == (-MaxCutVal)..MaxCutVal

\* Tensor.clamp_(min, max) of one element.  With min <= max both forms agree;
\* with min > max torch computes min(max(x, min), max) in its ATen kernels
\* ("min_max") and x < min ? min : (x > max ? max : x) in the older TH
\* kernels ("ternary").  Which one runs depends on the installed torch.
Clamp(x, lo, hi, form) ==
    IF form = "min_max"
    THEN (LET y == IF x < lo THEN lo ELSE x
          IN  IF y > hi THEN hi ELSE y)
    ELSE (IF x < lo THEN lo ELSE IF x > hi THEN hi ELSE x)

RECURSIVE ClipLoop(_, _, _, _, _)
\* iterations i, i+1, ... of the loop of clip (i is 1-based here)
ClipLoop(cutpoints, i, margin, min_val, form) ==
    IF i > Len(cutpoints) - 1 THEN cutpoints
    ELSE ClipLoop([cutpoints EXCEPT
                      ![i] = Clamp(cutpoints[i], min_val,
                                   cutpoints[i + 1] - margin, form)],
                  i + 1, margin, min_val, form)

\* AscensionCallback.clip(module)
clip(module, margin, min_val, form) ==
    IF module.cls = LCL
    THEN [module EXCEPT
             !.cutpoints = ClipLoop(module.cutpoints, 1, margin, min_val, form)]
    ELSE module

\* the modules of net: one LogisticCumulativeLink and one module of another
\* class that also owns a parameter vector
AscNets ==
    {<<[cls |-> LCL, cutpoints |-> c],
       [cls |-> "Linear", cutpoints |-> <<1, 0>>]>> :
        c \in UNION {[1..n -> CutVals] : n \in 1..MaxCut}}

AscInit ==
    /\ a_net \in AscNets
    /\ a_margin \in {0, 1}
    /\ a_min_val \in {-1, -3}
    /\ a_clamp \in {"min_max", "ternary"}
    /\ a_last = "init"
    /\ KappaIdle
    /\ CappaIdle
    /\ MixIdle
    /\ NegIdle

\* the optimizer step of a batch leaves any values in the cutpoints
AscGradientUpdate(c) ==
    /\ Len(c) = Len(a_net[1].cutpoints)
    /\ a_net' = [a_net EXCEPT ![1].cutpoints = c]
    /\ a_last' = "update"
    /\ UNCHANGED <<a_margin, a_min_val, a_clamp, notAsc>>

\* on_batch_end: self.net.apply(self.clip)
AscOnBatchEnd ==
    /\ a_net' = [m \in 1..Len(a_net) |->
                    clip(a_net[m], a_margin, a_min_val, a_clamp)]
    /\ a_last' = "batch_end"
    /\ UNCHANGED <<a_margin, a_min_val, a_clamp, notAsc>>

AscNext ==
    \/ \E c \in UNION {[1..n -> CutVals] : n \in 1..MaxCut} :
          AscGradientUpdate(c)
    \/ AscOnBatchEnd

AscSpec == AscInit /\ [][AscNext]_vars

AscLCLModules == {m \in 1..Len(a_net) : a_net[m].cls = LCL}

\* C1: after on_batch_end every pair of adjacent cutpoints of every
\* LogisticCumulativeLink module is ascending with at least the margin
\* between them, whatever the gradient update left behind.
AscCutpointsAscending ==
    a_last = "batch_end" =>
        \A m \in AscLCLModules :
            \A i \in 1..(Len(a_net[m].cutpoints) - 1) :
                a_net[m].cutpoints[i + 1] - a_net[m].cutpoints[i] >= a_margin

\* C2: after on_batch_end the smallest cutpoint (the first one, which the
\* callback clamps from below by min_val) of every LogisticCumulativeLink
\* module is at least min_val.
AscSmallestAtLeastMinVal ==
    a_last = "batch_end" =>
        \A m \in AscLCLModules : a_net[m].cutpoints[1] >= a_min_val

-----------------------------------------------------------------------------
(* MixupSameLabelCallback and MixupRegressionCallback *)

SameLabel == "MixupSameLabelCallback"
Regression == "MixupRegressionCallback"

\* for label_index in torch.arange(5)
NumMixLabels == 5

\* lam is a number of tenths: 1.0 is 10, the thresholds 0.3 and 0.7 are 3, 7
LamOne == 10
LamLow == 3
LamHigh == 7

\* the values np.random.beta(alpha, alpha) is taken to draw, in tenths
LamDraws == {2, 3, 7, 8}

\* the targets that occur in the batches
MixTargets == 0..(NumMixLabels - 1)

\* torch.randperm(n), as 1-based positions
Perms(n) == {p \in [1..n -> 1..n] : \A i, j \in 1..n : p[i] = p[j] => i = j}

\* name.startswith(prefix)
StartsWith(name, prefix) ==
    /\ Len(name) >= Len(prefix)
    /\ SubSeq(name, 1, Len(prefix)) = prefix

\* state.input of a batch of b samples: two tensors the callbacks are told to
\* mix, the image ids and the targets.  Rows are integers, distinct within
\* the batch, and multiples of 10 so that a blend in tenths is exact.
MixBatches ==
    {[features |-> [i \in 1..Len(t) |-> 10 * i],
      aux      |-> [i \in 1..Len(t) |-> 100 * i],
      image_id |-> [i \in 1..Len(t) |-> i],
      targets  |-> t] :
        t \in UNION {[1..b -> MixTargets] : b \in 0..MaxMixBatch}}

BatchSize(input) == Len(input.targets)

\* x[index]: IndexError when a position is out of range
CanIndex(x, index) == \A j \in 1..Len(index) : index[j] <= Len(x)
Indexed(x, index) == [j \in 1..Len(index) |-> x[index[j]]]

\* lam * a + (1 - lam) * b, row by row
Blend(a, b, lam) ==
    [j \in 1..Len(a) |-> (lam * a[j] + (LamOne - lam) * b[j]) \div LamOne]

\* x[mask] = values
MaskedAssign(x, mask, values) ==
    [i \in 1..Len(x) |->
        IF mask[i] THEN values[Cardinality({j \in 1..i : mask[j]})]
        ELSE x[i]]

NoError == "none"

RECURSIVE SameLabelFields(_, _, _, _, _)
\* for f in self.fields (from position k on): blend the rows under mask
SameLabelFields(input, fields, k, mask, draw) ==
    IF k > Len(fields) THEN [input |-> input, error |-> NoError]
    ELSE LET f   == fields[k]
             sub == Masked(input[f], mask)
         IN  IF ~CanIndex(sub, draw.index)
             THEN [input |-> input, error |-> "IndexError"]
             ELSE SameLabelFields(
                      [input EXCEPT ![f] =
                          MaskedAssign(input[f], mask,
                              Blend(sub, Indexed(sub, draw.index), draw.lam))],
                      fields, k + 1, mask, draw)

RECURSIVE SameLabelLoop(_, _, _)
\* The outcomes of the iterations label_index, label_index + 1, ... of
\* MixupSameLabelCallback.on_batch_start: every draw of lam and of the
\* permutation gives one; an exception ends the loop.
SameLabelLoop(input, fields, label_index) ==
    IF label_index = NumMixLabels THEN {[input |-> input, error |-> NoError]}
    ELSE LET mask == [i \in 1..BatchSize(input) |->
                         input.targets[i] = label_index]
             step(draw) ==
                 LET r == SameLabelFields(input, fields, 1, mask, draw)
                 IN  IF r.error # NoError THEN {r}
                     ELSE SameLabelLoop(r.input, fields, label_index + 1)
         IN  UNION {step(draw) :
                       draw \in [lam : LamDraws,
                                 index : Perms(BatchSize(input))]}

\* mutant: the criterion is given a mixed field in place of the targets
StandardLoss_MixedField(input, output) ==
    [pred |-> output.logits, target |-> input.features]

\* CriterionCallback._compute_loss: the criterion applied to the output and
\* the target; the loss is kept as the pair of arguments
StandardLoss(input, output) ==
    [pred |-> output.logits, target |-> input.targets]

\* y_a.masked_scatter(mask, source): the elements of source are copied, in
\* order, to the positions where mask is true
MaskedScatter(y_a, mask, source) ==
    [i \in 1..Len(y_a) |->
        IF mask[i] THEN source[Cardinality({j \in 1..i : mask[j]})]
        ELSE y_a[i]]

\* mutant: masked_scatter is given y_b instead of y_b[mask]
RegressionMixedTarget_SourceUnmasked(targets, index) ==
    LET y_a  == targets
        y_b  == Indexed(targets, index)
        mask == [i \in 1..Len(y_a) |-> y_b[i] > y_a[i]]
    IN  MaskedScatter(y_a, mask, y_b)

\* lines 435-445 of MixupRegressionCallback._compute_loss
RegressionMixedTarget(targets, index) ==
    LET y_a  == targets
        y_b  == Indexed(targets, index)
        mask == [i \in 1..Len(y_a) |-> y_b[i] > y_a[i]]
    IN  MaskedScatter(y_a, mask, Masked(y_b, mask))

NoLoss == [pending |-> TRUE]
NoOutput == [pending |-> TRUE]

MixInit ==
    /\ m_cls \in {SameLabel, Regression}
    /\ m_on_train_only \in BOOLEAN
    /\ m_fields = <<"features", "aux">>
    /\ m_alpha \in IF m_cls = SameLabel THEN {13} ELSE {0, 15}
    /\ m_lam = LamOne
    /\ m_index = <<>>
    /\ m_is_needed = TRUE
    /\ m_loader_name = <<>>
    /\ m_prev_needed = TRUE
    /\ m_input \in {b \in MixBatches : BatchSize(b) = 0}
    /\ m_loaded = m_input
    /\ m_output = NoOutput
    /\ m_loss = NoLoss
    /\ m_error = NoError
    /\ m_pc = "idle"
    /\ KappaIdle
    /\ CappaIdle
    /\ AscIdle
    /\ NegIdle

BetweenBatches == m_pc \in {"idle", "loader_started", "loss_done"}

\* mutant: once switched off, mixing is never switched on again
MixOnLoaderStart_Sticky(name) ==
    /\ BetweenBatches
    /\ m_loader_name' = name
    /\ m_prev_needed' = m_is_needed
    /\ m_is_needed' =
           (m_is_needed /\ (~m_on_train_only \/ StartsWith(name, Train)))
    /\ m_pc' = "loader_started"
    /\ UNCHANGED <<mixConfig, m_lam, m_index, m_input, m_loaded, m_output,
                   m_loss, m_error, notMix>>

\* on_loader_start of both classes; the runner has set state.loader_name
MixOnLoaderStart(name) ==
    /\ BetweenBatches
    /\ m_loader_name' = name
    /\ m_prev_needed' = m_is_needed
    /\ m_is_needed' = (~m_on_train_only \/ StartsWith(name, Train))
    /\ m_pc' = "loader_started"
    /\ UNCHANGED <<mixConfig, m_lam, m_index, m_input, m_loaded, m_output,
                   m_loss, m_error, notMix>>

\* the runner puts the next batch into state.input
MixRunnerBatch(batch) ==
    /\ BetweenBatches
    /\ m_input' = batch
    /\ m_loaded' = batch
    /\ m_output' = NoOutput
    /\ m_loss' = NoLoss
    /\ m_pc' = "batch_start"
    /\ UNCHANGED <<mixConfig, m_lam, m_index, m_is_needed, m_loader_name,
                   m_prev_needed, m_error, notMix>>

\* MixupSameLabelCallback.on_batch_start
SameLabelOnBatchStart ==
    /\ m_pc = "batch_start"
    /\ m_cls = SameLabel
    /\ IF ~m_is_needed
       THEN /\ m_pc' = "forward"
            /\ UNCHANGED <<m_input, m_error>>
       ELSE \E r \in SameLabelLoop(m_input, m_fields, 0) :
                /\ m_input' = r.input
                /\ m_error' = r.error
                /\ m_pc' = IF r.error = NoError THEN "forward" ELSE "error"
    /\ UNCHANGED <<mixConfig, m_lam, m_index, m_is_needed, m_loader_name,
                   m_prev_needed, m_loaded, m_output, m_loss, notMix>>

\* mutant: self.index is drawn anew only when the batch size changes
RegressionOnBatchStart_StaleIndex ==
    /\ m_pc = "batch_start"
    /\ m_cls = Regression
    /\ m_pc' = "forward"
    /\ IF ~m_is_needed
       THEN UNCHANGED <<m_lam, m_index, m_input>>
       ELSE \E lam \in (IF m_alpha > 0 THEN LamDraws ELSE {LamOne}),
               index \in Perms(Len(m_input[m_fields[1]])) :
                /\ m_lam' = lam
                /\ IF lam < LamLow \/ lam > LamHigh
                   THEN UNCHANGED <<m_index, m_input>>
                   ELSE /\ m_index' = IF Len(m_index) = Len(index)
                                      THEN m_index ELSE index
                        /\ m_input' =
                               [f \in DOMAIN m_input |->
                                   IF f \in Range(m_fields)
                                   THEN Blend(m_input[f],
                                              Indexed(m_input[f], index), lam)
                                   ELSE m_input[f]]
    /\ UNCHANGED <<mixConfig, m_is_needed, m_loader_name, m_prev_needed,
                   m_loaded, m_output, m_loss, m_error, notMix>>

\* MixupRegressionCallback.on_batch_start
RegressionOnBatchStart ==
    /\ m_pc = "batch_start"
    /\ m_cls = Regression
    /\ m_pc' = "forward"
    /\ IF ~m_is_needed
       THEN UNCHANGED <<m_lam, m_index, m_input>>
       ELSE \E lam \in (IF m_alpha > 0 THEN LamDraws ELSE {LamOne}),
               index \in Perms(Len(m_input[m_fields[1]])) :
                /\ m_lam' = lam
                /\ IF lam < LamLow \/ lam > LamHigh
                   THEN UNCHANGED <<m_index, m_input>>
                   ELSE /\ m_index' = index
                        /\ m_input' =
                               [f \in DOMAIN m_input |->
                                   IF f \in Range(m_fields)
                                   THEN Blend(m_input[f],
                                              Indexed(m_input[f], index), lam)
                                   ELSE m_input[f]]
    /\ UNCHANGED <<mixConfig, m_is_needed, m_loader_name, m_prev_needed,
                   m_loaded, m_output, m_loss, m_error, notMix>>

\* the runner's forward pass fills state.output
MixRunnerForward ==
    /\ m_pc = "forward"
    /\ m_output' = [logits |-> m_input.features]
    /\ m_pc' = "batch_end"
    /\ UNCHANGED <<mixConfig, m_lam, m_index, m_is_needed, m_loader_name,
                   m_prev_needed, m_input, m_loaded, m_loss, m_error, notMix>>

\* MixupSameLabelCallback._compute_loss
SameLabelComputeLoss ==
    /\ m_pc = "batch_end"
    /\ m_cls = SameLabel
    /\ m_loss' = StandardLoss(m_input, m_output)
    /\ m_pc' = "loss_done"
    /\ UNCHANGED <<mixConfig, m_lam, m_index, m_is_needed, m_loader_name,
                   m_prev_needed, m_input, m_loaded, m_output, m_error,
                   notMix>>

\* MixupRegressionCallback._compute_loss
RegressionComputeLoss ==
    /\ m_pc = "batch_end"
    /\ m_cls = Regression
    /\ IF ~m_is_needed \/ m_lam < LamLow \/ m_lam > LamHigh
       THEN /\ m_loss' = StandardLoss(m_input, m_output)
            /\ m_pc' = "loss_done"
            /\ UNCHANGED m_error
       ELSE IF CanIndex(m_input.targets, m_index)
                 /\ Len(m_index) = Len(m_input.targets)
            THEN /\ m_loss' =
                        [pred   |-> m_output.logits,
                         target |-> RegressionMixedTarget(m_input.targets,
                                                          m_index)]
                 /\ m_pc' = "loss_done"
                 /\ UNCHANGED m_error
            ELSE /\ m_error' = "IndexError"
                 /\ m_pc' = "error"
                 /\ UNCHANGED m_loss
    /\ UNCHANGED <<mixConfig, m_lam, m_index, m_is_needed, m_loader_name,
                   m_prev_needed, m_input, m_loaded, m_output, notMix>>

MixNext ==
    \/ \E name \in LoaderNames : MixOnLoaderStart(name)
    \/ \E batch \in MixBatches : MixRunnerBatch(batch)
    \/ SameLabelOnBatchStart
    \/ RegressionOnBatchStart
    \/ MixRunnerForward
    \/ SameLabelComputeLoss
    \/ RegressionComputeLoss

MixSpec == MixInit /\ [][MixNext]_vars

\* on_batch_start has run on the batch in state.input
AfterBatchStart == m_pc \in {"forward", "error", "batch_end", "loss_done"}

OnTrainLoader == StartsWith(m_loader_name, Train)

OnOtherLoader == m_loader_name # <<>> /\ ~OnTrainLoader

LamInMixRange == LamLow <= m_lam /\ m_lam <= LamHigh

Max(a, b) == IF a >= b THEN a ELSE b

\* C7: on a loader whose name starts with "train",
\* MixupSameLabelCallback.on_batch_start completes without error for every
\* batch with targets in 0..4 and replaces each row of every listed field by
\* lam * row + (1 - lam) * row', row' being the row of a sample of the batch
\* with the same label.
SameLabelMixesSameLabel ==
    (m_cls = SameLabel /\ OnTrainLoader /\ AfterBatchStart) =>
        /\ m_error = NoError
        /\ \A k \in 1..Len(m_fields) : \A i \in 1..BatchSize(m_loaded) :
              \E lam \in LamDraws, j \in 1..BatchSize(m_loaded) :
                 /\ m_loaded.targets[j] = m_loaded.targets[i]
                 /\ m_input[m_fields[k]][i] * LamOne =
                        lam * m_loaded[m_fields[k]][i]
                          + (LamOne - lam) * m_loaded[m_fields[k]][j]

\* C8: MixupSameLabelCallback does not change the target: on_batch_start
\* leaves state.input["targets"] and every key not listed in fields as
\* loaded, and _compute_loss is the criterion on the output and those
\* unmodified targets.
SameLabelKeepsTargets ==
    m_cls = SameLabel =>
        /\ \A key \in DOMAIN m_input \ Range(m_fields) :
              m_input[key] = m_loaded[key]
        /\ m_loss # NoLoss =>
              m_loss = [pred |-> m_output.logits, target |-> m_loaded.targets]

\* on_batch_start has blended the rows of a field and the targets are as
\* loaded
SameLabelKeepsTargetsWitness ==
    /\ m_cls = SameLabel
    /\ AfterBatchStart
    /\ m_input.features # m_loaded.features
    /\ m_input.aux # m_loaded.aux
    /\ m_input.targets = m_loaded.targets

\* C9: with on_train_only the mixup is applied to train loaders only: after
\* an on_loader_start for a loader whose name does not start with "train",
\* on_batch_start of both classes leaves state.input as loaded and
\* _compute_loss is the standard loss; the decision is taken again at every
\* on_loader_start.
MixupOnTrainOnly ==
    /\ m_loader_name # <<>> =>
          m_is_needed = (~m_on_train_only \/ OnTrainLoader)
    /\ (m_on_train_only /\ OnOtherLoader /\ AfterBatchStart) =>
          /\ m_input = m_loaded
          /\ m_error = NoError
          /\ m_loss # NoLoss =>
                m_loss = [pred   |-> m_output.logits,
                          target |-> m_loaded.targets]

\* a batch of a validation loader that follows a train loader whose last
\* batch was mixed: lam is still in the mixing range, the input is as loaded
\* and the loss is the standard one
MixupOnTrainOnlyWitness ==
    /\ m_cls = Regression
    /\ m_on_train_only
    /\ OnOtherLoader
    /\ m_prev_needed
    /\ LamInMixRange
    /\ m_pc = "loss_done"
    /\ BatchSize(m_loaded) = 2
    /\ m_loaded.targets[1] # m_loaded.targets[2]
    /\ m_index # <<1, 2>>

\* C10: when MixupRegressionCallback mixes a batch, the target given to the
\* criterion is max(y_a, y_b) element by element, y_a the loaded target and
\* y_b that target permuted by the mixing index; state.input's target is
\* unchanged.
RegressionTargetIsMax ==
    (m_cls = Regression /\ m_is_needed /\ LamInMixRange
        /\ m_pc = "loss_done") =>
        /\ Len(m_loss.target) = BatchSize(m_loaded)
        /\ \A i \in 1..BatchSize(m_loaded) :
              m_loss.target[i] = Max(m_loaded.targets[i],
                                     m_loaded.targets[m_index[i]])
        /\ m_input.targets = m_loaded.targets

\* a mixed batch in which the permuted target is larger than the loaded one
\* at one position and smaller at another
RegressionTargetIsMaxWitness ==
    /\ m_cls = Regression
    /\ m_is_needed
    /\ LamInMixRange
    /\ m_pc = "loss_done"
    /\ m_input.features # m_loaded.features
    /\ \E i, j \in 1..BatchSize(m_loaded) :
          /\ m_loaded.targets[m_index[i]] > m_loaded.targets[i]
          /\ m_loaded.targets[m_index[j]] < m_loaded.targets[j]

-----------------------------------------------------------------------------
(* NegativeMiningCallback (from_regression=False) *)

\* the loaders NegativeMiningCallback is run on
NegLoaders == {Train, Valid}

\* The samples of the batches: image id, target and logits row.  The image id
\* determines the sample.  Sample 1 is predicted right, 2 and 3 are predicted
\* wrong, 4 carries the target IgnoreIndex.
NegSamples ==
    {[image_id |-> 1, target |-> 0, logits |-> <<1, 1>>],
     [image_id |-> 2, target |-> 1, logits |-> <<1, 1>>],
     [image_id |-> 3, target |-> 0, logits |-> <<0, 3>>],
     [image_id |-> 4, target |-> IgnoreIndex, logits |-> <<0, 3>>]}

NegBatches == UNION {[1..b -> NegSamples] : b \in 0..MaxBatch}

NoCsv == [written |-> FALSE]

NegInit ==
    /\ n_ignore_index \in {{}, {IgnoreIndex}}
    /\ n_image_ids = <<>>
    /\ n_y_trues = <<>>
    /\ n_y_preds = <<>>
    /\ n_y_preds_raw = <<>>
    /\ n_loader_name = Train
    /\ n_csv = NoCsv
    /\ n_since_start = <<>>
    /\ n_last = "init"
    /\ KappaIdle
    /\ CappaIdle
    /\ AscIdle
    /\ MixIdle

\* mutant: image_ids is not emptied when a loader starts
NegOnLoaderStart_KeepsIds(name) ==
    /\ n_loader_name' = name
    /\ n_y_preds_raw' = <<>>
    /\ n_y_preds' = <<>>
    /\ n_y_trues' = <<>>
    /\ n_since_start' = <<>>
    /\ n_last' = "loader_start"
    /\ UNCHANGED <<n_ignore_index, n_image_ids, n_csv, notNeg>>

\* the runner enters loader `name`; the callback empties its four lists
NegOnLoaderStart(name) ==
    /\ n_loader_name' = name
    /\ n_image_ids' = <<>>
    /\ n_y_preds_raw' = <<>>
    /\ n_y_preds' = <<>>
    /\ n_y_trues' = <<>>
    /\ n_since_start' = <<>>
    /\ n_last' = "loader_start"
    /\ UNCHANGED <<n_ignore_index, n_csv, notNeg>>

\* What on_batch_end appends to the four lists: the batch, masked by
\* ignore_index when that is set, then restricted to y_true != y_pred.
NegBatchEndAppend(ignore_index, batch) ==
    LET n          == Len(batch)
        y_true0    == [i \in 1..n |-> batch[i].target]
        y_raw0     == [i \in 1..n |-> batch[i].logits]
        y_pred0    == [i \in 1..n |-> ArgMax(batch[i].logits)]
        image_ids0 == [i \in 1..n |-> batch[i].image_id]
        mask       == [i \in 1..n |-> y_true0[i] \notin ignore_index]
        masked     == IsNotNone(ignore_index)
        y_true     == IF masked THEN Masked(y_true0, mask) ELSE y_true0
        y_raw      == IF masked THEN Masked(y_raw0, mask) ELSE y_raw0
        y_pred     == IF masked THEN Masked(y_pred0, mask) ELSE y_pred0
        image_ids  == IF masked THEN Masked(image_ids0, mask) ELSE image_ids0
        negatives  == [i \in 1..Len(y_true) |-> y_true[i] # y_pred[i]]
    IN  IF masked /\ Len(y_true) = 0
        THEN [image_ids |-> <<>>, y_preds_raw |-> <<>>, y_preds |-> <<>>,
              y_trues |-> <<>>]
        ELSE [image_ids   |-> Masked(image_ids, negatives),
              y_preds_raw |-> Masked(y_raw, negatives),
              y_preds     |-> Masked(y_pred, negatives),
              y_trues     |-> Masked(y_true, negatives)]

NegOnBatchEnd(batch) ==
    /\ Len(n_since_start) + Len(batch) <= MaxNegAccum
    /\ LET r == NegBatchEndAppend(n_ignore_index, batch)
       IN  /\ n_image_ids' = n_image_ids \o r.image_ids
           /\ n_y_preds_raw' = n_y_preds_raw \o r.y_preds_raw
           /\ n_y_preds' = n_y_preds \o r.y_preds
           /\ n_y_trues' = n_y_trues \o r.y_trues
    /\ n_since_start' = n_since_start \o batch
    /\ n_last' = "batch_end"
    /\ UNCHANGED <<n_ignore_index, n_loader_name, n_csv, notNeg>>

\* pd.DataFrame.from_dict of the four lists: one row per index, or
\* ValueError when the lists differ in length
NegDataFrame(image_ids, y_trues, y_preds, y_preds_raw) ==
    IF {Len(y_trues), Len(y_preds), Len(y_preds_raw)} # {Len(image_ids)}
    THEN [ok |-> FALSE, rows |-> <<>>]
    ELSE [ok   |-> TRUE,
          rows |-> [k \in 1..Len(image_ids) |->
                       [image_id   |-> image_ids[k],
                        y_true     |-> y_trues[k],
                        y_pred     |-> y_preds[k],
                        y_pred_raw |-> y_preds_raw[k]]]]

\* on_loader_end writes negatives/<loader_name>/epoch_<epoch>.csv; the model
\* keeps the file written last, named by its loader
NegOnLoaderEnd ==
    /\ LET df == NegDataFrame(n_image_ids, n_y_trues, n_y_preds,
                              n_y_preds_raw)
       IN  n_csv' = IF df.ok
                    THEN [written |-> TRUE, fname |-> n_loader_name,
                          rows |-> df.rows]
                    ELSE n_csv
    /\ n_last' = "loader_end"
    /\ UNCHANGED <<n_ignore_index, n_image_ids, n_y_trues, n_y_preds,
                   n_y_preds_raw, n_loader_name, n_since_start, notNeg>>

NegNext ==
    \/ \E name \in NegLoaders : NegOnLoaderStart(name)
    \/ \E batch \in NegBatches : NegOnBatchEnd(batch)
    \/ NegOnLoaderEnd

NegSpec == NegInit /\ [][NegNext]_vars

\* a sample of a batch seen since the most recent on_loader_start is
\* described by (image_id, y_true, y_pred, y_pred_raw)
NegIsRecentSample(image_id, y_true, y_pred, y_pred_raw) ==
    \E i \in 1..Len(n_since_start) :
        /\ n_since_start[i].image_id = image_id
        /\ n_since_start[i].target = y_true
        /\ ArgMax(n_since_start[i].logits) = y_pred
        /\ n_since_start[i].logits = y_pred_raw

\* C12: in every reachable state of NegativeMiningCallback the four
\* accumulators have the same length, entry k of each describes the same
\* sample, every recorded sample has y_true # y_pred and y_true #
\* ignore_index, and the CSV written at on_loader_end holds only samples of
\* the batches since the most recent on_loader_start.
NegAccumulatorsConsistent ==
    /\ Len(n_y_trues) = Len(n_image_ids)
    /\ Len(n_y_preds) = Len(n_image_ids)
    /\ Len(n_y_preds_raw) = Len(n_image_ids)
    /\ \A k \in 1..Len(n_image_ids) :
          /\ NegIsRecentSample(n_image_ids[k], n_y_trues[k], n_y_preds[k],
                               n_y_preds_raw[k])
          /\ n_y_trues[k] # n_y_preds[k]
          /\ n_y_trues[k] \notin n_ignore_index
    /\ n_last = "loader_end" =>
          /\ n_csv.written
          /\ n_csv.fname = n_loader_name
          /\ Len(n_csv.rows) = Len(n_image_ids)
          /\ \A k \in 1..Len(n_csv.rows) :
                NegIsRecentSample(n_csv.rows[k].image_id,
                                  n_csv.rows[k].y_true,
                                  n_csv.rows[k].y_pred,
                                  n_csv.rows[k].y_pred_raw)

\* a CSV written for the loader "valid" with the one wrongly predicted sample
\* of batches that also held a rightly predicted and an ignored sample
NegAccumulatorsWitness ==
    /\ n_last = "loader_end"
    /\ n_loader_name = Valid
    /\ n_ignore_index = {IgnoreIndex}
    /\ Len(n_csv.rows) = 1
    /\ Len(n_since_start) = 3
    /\ \E i \in 1..3 : n_since_start[i].target = IgnoreIndex
    /\ \E i \in 1..3 :
          n_since_start[i].target = ArgMax(n_since_start[i].logits)

====
